---- MODULE Spec2Model ----
\* Model of internal/controllers/requirements/git/git.go (RequirementGit).
\* Strings are sequences of one-character strings (ASCII bytes).
EXTENDS Integers, Sequences, FiniteSets, TLC

VARIABLES
    execErr,     \* outcome of running `git --version`: "nil" or an exec error
    output,      \* combined stdout+stderr of `git --version`
    pc,          \* position in the ValidateGit call chain
    calls,       \* number of ValidateGit calls started
    response,    \* value returned by execGitVersion (lowercased output)
    version,     \* major parsed by getVersionAndSubVersion
    subversion,  \* minor parsed by getVersionAndSubVersion
    err,         \* error value ValidateGit returns ("nil" = success)
    log,         \* entries written to the logger, oldest first
    logStart,    \* Len(log) when the current call started
    visited,     \* functions the current call has entered
    firstErr,    \* result of the first completed call
    firstLog,    \* log entries emitted by the first completed call
    changed      \* the external tool changed since the first call

vars == <<execErr, output, pc, calls, response, version, subversion, err,
          log, logStart, visited, firstErr, firstLog, changed>>

\* ---------------------------------------------------------------- bounds
MaxTail == 4
MaxCalls == 2

\* ------------------------------------------------------------- constants
MinVersionGitAccept == 2
MinSubVersionGitAccept == 1

ErrMinVersion == <<MinVersionGitAccept, MinSubVersionGitAccept>>
ErrGitNotInstalled == "ErrGitNotInstalled"
ErrGitLowerVersion == "ErrGitLowerVersion"

Marker == <<"g","i","t"," ","v","e","r","s","i","o","n"," ">>

\* ------------------------------------------------------- string helpers
ToLowerChar(c) ==
    CASE c = "G" -> "g" [] c = "I" -> "i" [] c = "T" -> "t"
      [] c = "V" -> "v" [] c = "E" -> "e" [] c = "R" -> "r"
      [] c = "S" -> "s" [] c = "O" -> "o" [] c = "N" -> "n"
      [] OTHER -> c

ToLower(s) == [i \in 1..Len(s) |-> ToLowerChar(s[i])]

\* strings.Index: 0-based offset of the first occurrence, -1 when absent
Index(s, sub) ==
    LET hits == {i \in 0..(Len(s) - Len(sub)) : SubSeq(s, i + 1, i + Len(sub)) = sub}
    IN  IF hits = {} THEN -1 ELSE CHOOSE i \in hits : \A j \in hits : i <= j

Contains(s, sub) == Index(s, sub) # -1

RECURSIVE Split(_, _)
Split(s, sep) ==
    LET i == Index(s, sep)
    IN  IF i = -1 THEN <<s>>
        ELSE <<SubSeq(s, 1, i)>> \o Split(SubSeq(s, i + Len(sep) + 1, Len(s)), sep)

IsDigit(c) == c \in {"0","1","2","3","4","5","6","7","8","9"}

DigitVal(c) ==
    CASE c = "0" -> 0 [] c = "1" -> 1 [] c = "2" -> 2 [] c = "3" -> 3
      [] c = "4" -> 4 [] c = "5" -> 5 [] c = "6" -> 6 [] c = "7" -> 7
      [] c = "8" -> 8 [] c = "9" -> 9

RECURSIVE DigitsVal(_)
DigitsVal(s) ==
    IF s = <<>> THEN 0
    ELSE 10 * DigitsVal(SubSeq(s, 1, Len(s) - 1)) + DigitVal(s[Len(s)])

\* strconv.Atoi: optional sign, then one or more decimal digits
Atoi(s) ==
    LET signed == Len(s) > 0 /\ s[1] \in {"+", "-"}
        digits == IF signed THEN SubSeq(s, 2, Len(s)) ELSE s
    IN  IF digits = <<>> \/ \E i \in 1..Len(digits) : ~IsDigit(digits[i])
        THEN [ok |-> FALSE, val |-> 0]
        ELSE [ok |-> TRUE,
              val |-> IF signed /\ s[1] = "-" THEN 0 - DigitsVal(digits)
                      ELSE DigitsVal(digits)]

\* ------------------------------------------------------------ log entries
LogCheckRequirements(e) ==
    [severity |-> "error", msg |-> "MsgErrorWhenCheckRequirementsGit", arg |-> <<e>>]
LogLowerVersion ==
    [severity |-> "error", msg |-> "MsgErrorWhenGitIsLowerVersion", arg |-> ErrMinVersion]
LogHowToInstall ==
    [severity |-> "info", msg |-> "MsgInfoHowToInstallGit", arg |-> <<>>]

\* ------------------------------------------------- the program's functions
\* variant: the execution error is logged by the first call only
execGitVersionLogOnce(e, out, lg) ==
    IF e # "nil"
    THEN [response |-> <<>>, err |-> e,
          log |-> IF calls > 1 THEN lg ELSE Append(lg, LogCheckRequirements(e))]
    ELSE [response |-> ToLower(out), err |-> "nil", log |-> lg]

execGitVersion(e, out, lg) ==
    IF e # "nil"
    THEN [response |-> <<>>, err |-> e, log |-> Append(lg, LogCheckRequirements(e))]
    ELSE [response |-> ToLower(out), err |-> "nil", log |-> lg]

\* variant: the marker is searched without its trailing space
checkIfContainsGitVersionNoSpace(resp) ==
    Contains(ToLower(resp), SubSeq(Marker, 1, Len(Marker) - 1))

checkIfContainsGitVersion(resp) == Contains(ToLower(resp), Marker)

getVersionAndSubVersion(fullVersion) ==
    IF Len(fullVersion) < 1
    THEN [kind |-> "panic", version |-> 0, subversion |-> 0]
    ELSE LET v == Atoi(SubSeq(fullVersion, 1, 1))
         IN  IF ~v.ok
             THEN [kind |-> "err", version |-> 0, subversion |-> 0]
             ELSE IF Len(fullVersion) < 4
             THEN [kind |-> "panic", version |-> 0, subversion |-> 0]
             ELSE LET sv == Atoi(SubSeq(fullVersion, 3, 4))
                  IN  IF ~sv.ok
                      THEN [kind |-> "err", version |-> 0, subversion |-> 0]
                      ELSE [kind |-> "ok", version |-> v.val, subversion |-> sv.val]

extractGitVersionFromString(resp) ==
    LET responseSpited == Split(ToLower(resp), Marker)
    IN  IF Len(responseSpited) < 1
           \/ (Len(responseSpited) > 1 /\ Len(responseSpited[2]) < 3)
        THEN [kind |-> "err", version |-> 0, subversion |-> 0]
        ELSE IF Len(responseSpited) < 2
        THEN [kind |-> "panic", version |-> 0, subversion |-> 0]
        ELSE getVersionAndSubVersion(responseSpited[2])

\* variant: the minor comparison is off by one
IsLowerVersionOffByOne(v, sv) ==
    \/ v < MinVersionGitAccept
    \/ (v = MinVersionGitAccept /\ sv <= MinSubVersionGitAccept)

IsLowerVersion(v, sv) ==
    \/ v < MinVersionGitAccept
    \/ (v = MinVersionGitAccept /\ sv < MinSubVersionGitAccept)

\* variant: the hint is logged only for a missing git
validateIfGitIsSupportedNotInstalledOnly(e, lg) ==
    IF e = ErrGitNotInstalled THEN Append(lg, LogHowToInstall) ELSE lg

\* variant: the hint is logged whatever the outcome
validateIfGitIsSupportedAlways(e, lg) == Append(lg, LogHowToInstall)

validateIfGitIsSupported(e, lg) ==
    IF e # "nil" THEN Append(lg, LogHowToInstall) ELSE lg

\* ------------------------------------------------------------------ inputs
Alphabet == {"0", "1", "2", "3", ".", "-", "+"}

Tails == UNION {[1..n -> Alphabet] : n \in 0..MaxTail}

MarkerCapital == <<"G","i","t"," ","V","e","r","s","i","o","n"," ">>
MarkerNoSpace == <<"g","i","t"," ","v","e","r","s","i","o","n">>

Heads == {Marker, MarkerCapital, MarkerNoSpace, Marker \o Marker, <<>>}

Banner2010 == Marker \o <<"2",".","0","1",".","0">>
Banner2000 == Marker \o <<"2",".","0","0",".","0">>
Banner1990 == Marker \o <<"1",".","9","9",".","0">>
Banner350  == Marker \o <<"3",".","5",".","0">>
Banner2341 == MarkerCapital \o <<"2",".","3","4",".","1","\n">>

KnownBanners == {Banner2010, Banner2000, Banner1990, Banner350, Banner2341}

Outputs == {h \o t : h \in Heads, t \in Tails} \cup KnownBanners

ExecOutcomes == {"nil", "ErrNotFound", "ExitError"}

\* ----------------------------------------------------------------- actions
Init ==
    /\ execErr \in ExecOutcomes
    /\ output \in Outputs
    /\ pc = "idle"
    /\ calls = 0
    /\ response = <<>>
    /\ version = 0
    /\ subversion = 0
    /\ err = "nil"
    /\ log = <<>>
    /\ logStart = 0
    /\ visited = {}
    /\ firstErr = "nil"
    /\ firstLog = <<>>
    /\ changed = FALSE

\* the caller invokes ValidateGit
Call ==
    /\ pc = "idle"
    /\ calls < MaxCalls
    /\ calls' = calls + 1
    /\ pc' = "exec"
    /\ response' = <<>>
    /\ version' = 0
    /\ subversion' = 0
    /\ err' = "nil"
    /\ logStart' = Len(log)
    /\ visited' = {}
    /\ UNCHANGED <<execErr, output, log, firstErr, firstLog, changed>>

\* validateIfGitIsInstalled: execGitVersion and the early return on error
StepExec ==
    /\ pc = "exec"
    /\ LET r == execGitVersion(execErr, output, log)
       IN  /\ response' = r.response
           /\ err' = r.err
           /\ log' = r.log
           /\ pc' = IF r.err # "nil" THEN "done" ELSE "check"
    /\ visited' = visited \cup {"execGitVersion"}
    /\ UNCHANGED <<execErr, output, calls, version, subversion, logStart,
                   firstErr, firstLog, changed>>

\* validateIfGitIsInstalled: the marker check
StepCheck ==
    /\ pc = "check"
    /\ IF checkIfContainsGitVersion(response)
       THEN /\ pc' = "extract"
            /\ UNCHANGED <<err, response>>
       ELSE /\ pc' = "done"
            /\ err' = ErrGitNotInstalled
            /\ response' = <<>>
    /\ visited' = visited \cup {"checkIfContainsGitVersion"}
    /\ UNCHANGED <<execErr, output, calls, version, subversion, log, logStart,
                   firstErr, firstLog, changed>>

\* validateIfGitIsRunningInMinVersion: extractGitVersionFromString
StepExtract ==
    /\ pc = "extract"
    /\ LET r == extractGitVersionFromString(response)
       IN  /\ version' = r.version
           /\ subversion' = r.subversion
           /\ err' = IF r.kind = "err" THEN ErrGitNotInstalled ELSE err
           /\ pc' = CASE r.kind = "ok" -> "compare"
                      [] r.kind = "err" -> "supported"
                      [] r.kind = "panic" -> "panicked"
    /\ visited' = visited \cup {"extractGitVersionFromString"}
    /\ UNCHANGED <<execErr, output, calls, response, log, logStart,
                   firstErr, firstLog, changed>>

\* validateIfGitIsRunningInMinVersion: the comparison with the minimum
StepCompare ==
    /\ pc = "compare"
    /\ IF IsLowerVersion(version, subversion)
       THEN /\ log' = Append(log, LogLowerVersion)
            /\ err' = ErrGitLowerVersion
       ELSE /\ err' = "nil"
            /\ UNCHANGED log
    /\ pc' = "supported"
    /\ visited' = visited \cup {"compare"}
    /\ UNCHANGED <<execErr, output, calls, response, version, subversion,
                   logStart, firstErr, firstLog, changed>>

\* validateIfGitIsSupported: the hint and the return to the caller
StepSupported ==
    /\ pc = "supported"
    /\ log' = validateIfGitIsSupported(err, log)
    /\ pc' = "done"
    /\ UNCHANGED <<execErr, output, calls, response, version, subversion, err,
                   logStart, visited, firstErr, firstLog, changed>>

\* the caller receives the result
Return ==
    /\ pc = "done"
    /\ pc' = "idle"
    /\ IF calls = 1
       THEN /\ firstErr' = err
            /\ firstLog' = SubSeq(log, logStart + 1, Len(log))
       ELSE UNCHANGED <<firstErr, firstLog>>
    /\ UNCHANGED <<execErr, output, calls, response, version, subversion, err,
                   log, logStart, visited, changed>>

\* between two calls git is installed, removed or broken
ToolChange ==
    /\ pc = "idle"
    /\ calls >= 1
    /\ calls < MaxCalls
    /\ ~changed
    /\ execErr' \in ExecOutcomes \ {execErr}
    /\ changed' = TRUE
    /\ UNCHANGED <<output, pc, calls, response, version, subversion, err,
                   log, logStart, visited, firstErr, firstLog>>

Next ==
    \/ Call
    \/ StepExec
    \/ StepCheck
    \/ StepExtract
    \/ StepCompare
    \/ StepSupported
    \/ Return
    \/ ToolChange

Spec == Init /\ [][Next]_vars

\* ------------------------------------------------------------- properties
CallLog == SubSeq(log, logStart + 1, Len(log))
HintLogged == \E i \in 1..Len(CallLog) : CallLog[i] = LogHowToInstall
Terminal == pc \in {"done", "panicked"}
Parsing == {"checkIfContainsGitVersion", "extractGitVersionFromString", "compare"}

HasMarker(out) == \E i \in 1..Len(out) :
    /\ i + Len(Marker) - 1 <= Len(out)
    /\ \A k \in 1..Len(Marker) : ToLowerChar(out[i + k - 1]) = Marker[k]

\* the text that follows the first occurrence of the marker
Following(out) ==
    LET first == CHOOSE i \in 1..Len(out) :
                    /\ ToLower(SubSeq(out, i, i + Len(Marker) - 1)) = Marker
                    /\ \A j \in 1..(i - 1) :
                          ToLower(SubSeq(out, j, j + Len(Marker) - 1)) # Marker
    IN  SubSeq(out, first + Len(Marker), Len(out))

\* the fixed-position rule cannot read two integers from t
Unparseable(t) ==
    \/ Len(t) < 4
    \/ ~IsDigit(t[1])
    \/ ~Atoi(SubSeq(t, 3, 4)).ok

\* C1: when `git --version` fails to execute, ValidateGit returns
\* ErrGitNotInstalled, and no marker detection or version parsing has run.
C1_ExecFailureIsNotInstalled ==
    (pc = "done" /\ execErr # "nil")
        => (err = ErrGitNotInstalled /\ visited \cap Parsing = {})

\* C2: for every command output ValidateGit returns a value to its caller
\* and never panics, also when exactly 3 characters follow the marker.
C2_NeverPanics == pc # "panicked"

\* C3: once major and minor are parsed, ValidateGit returns
\* ErrGitLowerVersion exactly when major < 2 or (major = 2 and minor < 1) and
\* succeeds otherwise; "git version 2.01.0" parses as (2, 1) and succeeds,
\* "git version 2.00.0" and "git version 1.99.0" are too low.
C3_MinimumVersionThreshold ==
    /\ (pc = "done" /\ "compare" \in visited)
          => /\ err \in {"nil", ErrGitLowerVersion}
             /\ err = ErrGitLowerVersion
                   <=> (version < 2 \/ (version = 2 /\ subversion < 1))
    /\ (Terminal /\ execErr = "nil" /\ output = Banner2010)
          => (pc = "done" /\ version = 2 /\ subversion = 1 /\ err = "nil")
    /\ (Terminal /\ execErr = "nil" /\ output \in {Banner2000, Banner1990})
          => (pc = "done" /\ err = ErrGitLowerVersion)

C3_Witness ==
    /\ pc = "done" /\ execErr = "nil" /\ output = Banner2010
    /\ "compare" \in visited /\ err = "nil"

\* C4: for the output "git version 3.5.0" ValidateGit returns no error.
C4_Git350Succeeds ==
    (Terminal /\ execErr = "nil" /\ output = Banner350)
        => (pc = "done" /\ err = "nil")

\* C5: a captured output without the marker (after lowercasing) makes
\* ValidateGit return ErrGitNotInstalled without reaching version extraction
\* or comparison.
C5_NoMarkerIsNotInstalled ==
    (execErr = "nil" /\ ~HasMarker(output) /\ pc # "idle")
        => /\ pc \in {"exec", "check", "done"}
           /\ visited \cap {"extractGitVersionFromString", "compare"} = {}
           /\ pc = "done" => err = ErrGitNotInstalled

C5_Witness ==
    /\ pc = "done" /\ execErr = "nil" /\ ~HasMarker(output)
    /\ Len(output) > Len(Marker)
    /\ "checkIfContainsGitVersion" \in visited
    /\ err = ErrGitNotInstalled

\* C6: when the marker is present and the text after it cannot be parsed by
\* the fixed-position rule (shorter than D.DD, offset 0 not an integer, or
\* offsets 2-3 not an integer), ValidateGit returns ErrGitNotInstalled.
C6_UnparseableIsNotInstalled ==
    (Terminal /\ execErr = "nil" /\ HasMarker(output)
              /\ Unparseable(Following(output)))
        => (pc = "done" /\ err = ErrGitNotInstalled)

\* C7: whenever ValidateGit returns ErrGitLowerVersion, the call has logged
\* first the error entry naming the minimum version 2.1 and then the info
\* entry with the installation hint, before the error reaches the caller.
C7_LowerVersionLogsBoth ==
    /\ (pc = "supported" /\ err = ErrGitLowerVersion)
          => CallLog = <<LogLowerVersion>>
    /\ (pc = "done" /\ err = ErrGitLowerVersion)
          => /\ CallLog = <<LogLowerVersion, LogHowToInstall>>
             /\ CallLog[1].severity = "error" /\ CallLog[1].arg = <<2, 1>>
             /\ CallLog[2].severity = "info"

C7_Witness ==
    /\ pc = "done" /\ err = ErrGitLowerVersion /\ calls = 1
    /\ Len(CallLog) = 2

\* C8: every (major, minor) pair that version extraction returns without
\* error consists of two non-negative integers.
C8_ParsedNonNegative ==
    pc = "compare" => (version >= 0 /\ subversion >= 0)

\* C9: ValidateGit keeps no state between calls: while the external tool is
\* unchanged, every later call returns the same result and emits the same
\* log entries as the first call.
C9_RepeatedCallsAgree ==
    (pc = "done" /\ calls >= 2 /\ ~changed)
        => (err = firstErr /\ CallLog = firstLog)

C9_Witness ==
    /\ pc = "done" /\ calls >= 2 /\ ~changed
    /\ execErr # "nil" /\ Len(firstLog) = 1

\* C10: the installation hint is logged exactly when version extraction and
\* comparison return an error (ErrGitLowerVersion, or ErrGitNotInstalled for
\* a too-short or unparseable version text); never when the execution
\* failed, the marker is absent or ValidateGit succeeds.
C10_HintIffSecondPhaseFails ==
    /\ Terminal
          => (HintLogged <=> /\ pc = "done"
                             /\ "extractGitVersionFromString" \in visited
                             /\ err \in {ErrGitNotInstalled, ErrGitLowerVersion})
    /\ (pc = "done" /\ (execErr # "nil" \/ ~HasMarker(output) \/ err = "nil"))
          => ~HintLogged

C10_Witness ==
    /\ pc = "done" /\ err = ErrGitNotInstalled /\ HintLogged
    /\ execErr = "nil" /\ HasMarker(output)
    /\ Len(Following(output)) >= 4

====
